---------------------------- MODULE Spec2Model ----------------------------
(***************************************************************************)
(* A model of polfit.py: the polynomial fit of a potential-energy curve    *)
(* (polfit), the Dunham analysis of its Taylor coefficients (dunham), the  *)
(* table reader (read_input_file), and the script body that runs them once *)
(* per data column and selects the series to plot.                         *)
(*                                                                         *)
(* Numbers.  A float is modelled as an exact rational n/d in lowest terms, *)
(* or one of the IEEE values nan, +inf, -inf that numpy arithmetic yields  *)
(* on a division by zero.  Every value carries the tag np: TRUE for a      *)
(* numpy.float64, FALSE for a built-in Python float.  The tag decides what *)
(* a division by zero does: Python floats raise ZeroDivisionError, numpy   *)
(* floats give nan or inf and a warning.  A raised exception is the value  *)
(* Err, which every later operation passes on.  Signed zeros and rounding  *)
(* are not modelled, except that Sqrt rounds up to the denominator's grid. *)
(***************************************************************************)
EXTENDS Integers, Sequences, FiniteSets

\* ------------------------------------------------------------------------
\* Arithmetic of floats
\* ------------------------------------------------------------------------

IAbs(i) == IF i < 0 THEN -i ELSE i

RECURSIVE GCD(_, _)
GCD(a, b) == IF b = 0 THEN a ELSE GCD(b, a % b)

Fin(n, d, np) ==
  LET s == IF d < 0 THEN -1 ELSE 1
      g == GCD(IAbs(n), IAbs(d))
  IN  [k |-> "fin", n |-> (s * n) \div g, d |-> (s * d) \div g, np |-> np]

Py(n, d) == Fin(n, d, FALSE)
Np(n, d) == Fin(n, d, TRUE)
NaN(np) == [k |-> "nan", n |-> 0, d |-> 1, np |-> np]
Inf(s, np) == [k |-> "inf", n |-> s, d |-> 1, np |-> np]
Err == [k |-> "err", n |-> 0, d |-> 1, np |-> FALSE]

IsFin(a) == a.k = "fin"
IsZero(a) == a.k = "fin" /\ a.n = 0
Sgn(a) == IF a.n > 0 THEN 1 ELSE IF a.n < 0 THEN -1 ELSE 0
\* a == b as Python compares floats: by value, whatever the two types
NumEq(a, b) == /\ a.k = b.k
               /\ a.k \in {"fin", "inf"}
               /\ a.n = b.n
               /\ a.d = b.d
\* a < b as Python compares floats (FALSE when either is nan)
Less(a, b) ==
  CASE a.k = "fin" /\ b.k = "fin" -> a.n * b.d < b.n * a.d
    [] a.k = "fin" /\ b.k = "inf" -> b.n > 0
    [] a.k = "inf" /\ b.k = "fin" -> a.n < 0
    [] a.k = "inf" /\ b.k = "inf" -> a.n < b.n
    [] OTHER -> FALSE

Mul(a, b) ==
  LET np == a.np \/ b.np IN
  CASE a.k = "err" -> a
    [] b.k = "err" -> b
    [] a.k = "nan" \/ b.k = "nan" -> NaN(np)
    [] a.k = "inf" \/ b.k = "inf" ->
         IF Sgn(a) * Sgn(b) = 0 THEN NaN(np) ELSE Inf(Sgn(a) * Sgn(b), np)
    [] OTHER ->
         LET g1 == GCD(IAbs(a.n), b.d)
             g2 == GCD(IAbs(b.n), a.d)
         IN  Fin((a.n \div g1) * (b.n \div g2), (a.d \div g2) * (b.d \div g1), np)

Add(a, b) ==
  LET np == a.np \/ b.np IN
  CASE a.k = "err" -> a
    [] b.k = "err" -> b
    [] a.k = "nan" \/ b.k = "nan" -> NaN(np)
    [] a.k = "inf" /\ b.k = "inf" -> IF a.n = b.n THEN Inf(a.n, np) ELSE NaN(np)
    [] a.k = "inf" -> Inf(a.n, np)
    [] b.k = "inf" -> Inf(b.n, np)
    [] OTHER ->
         LET g == GCD(a.d, b.d)
         IN  Fin(a.n * (b.d \div g) + b.n * (a.d \div g), (a.d \div g) * b.d, np)

Neg(a) == IF a.k \in {"fin", "inf"} THEN [a EXCEPT !.n = -a.n] ELSE a
Sub(a, b) == Add(a, Neg(b))

\* a / b: Python floats raise ZeroDivisionError on a zero divisor; as soon as
\* one operand is a numpy.float64 the quotient is nan or +-inf instead
Div(a, b) ==
  LET np == a.np \/ b.np IN
  CASE a.k = "err" -> a
    [] b.k = "err" -> b
    [] IsZero(b) ->
         IF ~np THEN Err
         ELSE IF Sgn(a) = 0 THEN NaN(np) ELSE Inf(Sgn(a), np)
    [] a.k = "nan" \/ b.k = "nan" -> NaN(np)
    [] b.k = "inf" -> IF a.k = "inf" THEN NaN(np) ELSE Fin(0, 1, np)
    [] a.k = "inf" -> Inf(Sgn(a) * Sgn(b), np)
    [] OTHER -> Mul(a, Fin(b.d, b.n, b.np))

RECURSIVE Pow(_, _)
Pow(a, e) == IF e = 0 THEN Fin(1, 1, a.np) ELSE Mul(a, Pow(a, e - 1))

\* np.abs: the result is a numpy.float64
Abs(a) == IF a.k \in {"fin", "inf"} THEN [a EXCEPT !.n = IAbs(a.n), !.np = TRUE]
          ELSE IF a.k = "nan" THEN NaN(TRUE) ELSE a

RECURSIVE ISqrtUp(_, _)
ISqrtUp(m, r) == IF r * r >= m THEN r ELSE ISqrtUp(m, r + 1)

\* np.sqrt: exact on squares of rationals, otherwise rounded up on the grid
\* of the denominator (a float square root rounds too, and never to zero);
\* the result is a numpy.float64
Sqrt(a) ==
  CASE a.k = "err" -> a
    [] a.k = "nan" -> NaN(TRUE)
    [] a.k = "inf" -> IF a.n > 0 THEN Inf(1, TRUE) ELSE NaN(TRUE)
    [] OTHER -> IF a.n < 0 THEN NaN(TRUE)
                ELSE Fin(ISqrtUp(a.n * a.d, 0), a.d, TRUE)

RECURSIVE Factorial(_)
Factorial(i) == IF i = 0 THEN 1 ELSE i * Factorial(i - 1)

\* ------------------------------------------------------------------------
\* Conversion factors (lines 6-11).  TLC's integers have 32 bits, so the
\* factors are carried at reduced magnitude: each is a positive Python float
\* that only scales a result, and nothing below depends on its size.
\* ------------------------------------------------------------------------

TO_CM == Py(3, 1)
TO_EV == Py(5, 1)
TO_BOHR == Py(2, 1)
TO_ANGSTROM == Py(1, 2)
FORCE_MASS == Py(2, 1)

\* ------------------------------------------------------------------------
\* Sequences and polynomials.  A polynomial is numpy's coefficient array,
\* highest degree first.
\* ------------------------------------------------------------------------

Zero == Np(0, 1)

RECURSIVE SeqMin(_), SeqMax(_)
SeqMin(s) == IF Len(s) = 1 THEN s[1]
             ELSE LET m == SeqMin(Tail(s)) IN IF Less(m, s[1]) THEN m ELSE s[1]
SeqMax(s) == IF Len(s) = 1 THEN s[1]
             ELSE LET m == SeqMax(Tail(s)) IN IF Less(s[1], m) THEN m ELSE s[1]

\* np.argmin: the first index (from 1 here) of the smallest element
ArgMin(y) == CHOOSE i \in 1..Len(y) :
               /\ \A j \in 1..Len(y) : ~Less(y[j], y[i])
               /\ \A j \in 1..(i - 1) : Less(y[i], y[j])

\* np.poly1d(z): leading zero coefficients are dropped, one coefficient stays
RECURSIVE poly1d(_)
poly1d(z) == IF Len(z) = 0 THEN <<Zero>>
             ELSE IF Len(z) > 1 /\ IsZero(z[1]) THEN poly1d(Tail(z))
             ELSE z

Order(p) == Len(p) - 1

\* p(t), by Horner's rule
RECURSIVE HornerFrom(_, _, _, _)
HornerFrom(p, t, i, acc) ==
  IF i > Len(p) THEN acc ELSE HornerFrom(p, t, i + 1, Add(Mul(acc, t), p[i]))
Polyval(p, t) == HornerFrom(p, t, 1, Zero)

\* p.deriv(): the derivative of a constant is poly1d([0])
Deriv1(p) ==
  IF Len(p) = 1 THEN <<Zero>>
  ELSE poly1d([i \in 1..(Len(p) - 1) |-> Mul(p[i], Np(Len(p) - i, 1))])

\* p.deriv(m)
RECURSIVE Deriv(_, _)
Deriv(p, m) == IF m = 0 THEN p ELSE Deriv(Deriv1(p), m - 1)

\* np.polyfit(xs, y, n) on data that a polynomial of degree <= n through
\* n+1 distinct positions reproduces exactly: least squares then returns
\* that polynomial, computed here by Newton's divided differences.  The
\* result has n+1 numpy coefficients, leading zeros included.
RECURSIVE DivDiff(_, _, _, _)
DivDiff(xs, y, i, j) ==
  IF i = j THEN Add(Zero, y[i])
  ELSE Div(Sub(DivDiff(xs, y, i + 1, j), DivDiff(xs, y, i, j - 1)),
           Sub(xs[j], xs[i]))

\* q(t) * (t - c) + a
MulLinAdd(q, c, a) ==
  LET up == Append(q, Zero)
      dn == <<Zero>> \o [i \in 1..Len(q) |-> Mul(c, q[i])]
      pr == [i \in 1..Len(up) |-> Sub(up[i], dn[i])]
  IN  [pr EXCEPT ![Len(pr)] = Add(pr[Len(pr)], a)]

RECURSIVE NewtonFrom(_, _, _, _)
NewtonFrom(xs, y, k, q) ==
  IF k = 0 THEN q
  ELSE NewtonFrom(xs, y, k - 1, MulLinAdd(q, xs[k], DivDiff(xs, y, 1, k)))

polyfit(xs, y, n) == NewtonFrom(xs, y, n, <<DivDiff(xs, y, 1, n + 1)>>)

\* The fit reproduces the data: the case polyfit above covers
FitsExactly(xs, y, n) ==
  /\ Len(xs) >= n + 1
  /\ \A i, j \in 1..Len(xs) : i # j => ~NumEq(xs[i], xs[j])
  /\ \A i \in 1..Len(xs) : NumEq(Polyval(polyfit(xs, y, n), xs[i]), y[i])

\* Complex numbers: the roots of a polynomial
Cx(re, im) == [re |-> re, im |-> im]
CAdd(a, b) == Cx(Add(a.re, b.re), Add(a.im, b.im))
CMul(a, b) == Cx(Sub(Mul(a.re, b.re), Mul(a.im, b.im)),
                 Add(Mul(a.re, b.im), Mul(a.im, b.re)))
RECURSIVE CHornerFrom(_, _, _, _)
CHornerFrom(p, c, i, acc) ==
  IF i > Len(p) THEN acc
  ELSE CHornerFrom(p, c, i + 1, CAdd(CMul(acc, c), Cx(p[i], Zero)))
CPolyval(p, c) == CHornerFrom(p, c, 1, Cx(Zero, Zero))

\* The multiplicity of c as a root of q
RECURSIVE Multiplicity(_, _)
Multiplicity(q, c) ==
  LET v == CPolyval(q, c) IN
  IF Order(q) >= 1 /\ IsZero(v.re) /\ IsZero(v.im)
    THEN 1 + Multiplicity(Deriv1(q), c)
    ELSE 0

\* The complex numbers the exact root-finder may return: the half-integers
\* up to RootRange, and a + i, a - i for the integers a from -1 to 1
RootRange == 4
RootCands ==
  {Cx(Np(a, 2), Zero) : a \in (-2 * RootRange)..(2 * RootRange)}
    \cup {Cx(Np(a, 1), Np(b, 1)) : a \in -1..1, b \in {-1, 1}}

\* np.roots(q), the array behind p.deriv().r, in exact arithmetic: the roots
\* of q with their multiplicities.  numpy returns the eigenvalues of the
\* companion matrix, in an order the code does not control, followed by one
\* exact 0.0 for every trailing zero coefficient; a constant has no roots.
roots(q) ==
  IF Order(q) = 0 THEN {<< >>}
  ELSE LET S == {c \in RootCands : Multiplicity(q, c) > 0}
       IN  {s \in [1..Order(q) -> S] :
              /\ \A c \in S : Cardinality({i \in 1..Order(q) : s[i] = c})
                                = Multiplicity(q, c)
              /\ \A i, j \in 1..Order(q) :
                   (IsZero(s[i].re) /\ IsZero(s[i].im) /\ i < j)
                     => (IsZero(s[j].re) /\ IsZero(s[j].im))}

\* ------------------------------------------------------------------------
\* polfit (lines 13-45)
\* ------------------------------------------------------------------------

\* A domain without padding
MarginNone == Py(0, 1)

ImagTol == Py(1, 100000000)
Margin == Py(1, 10)

Shift(x, xref) == [i \in 1..Len(x) |-> Sub(x[i], xref)]

\* A filter whose three comparisons admit equality
IsCriticalLoose(c, xmin, xmax) ==
  /\ ~Less(Py(1, 100000000), Abs(c.im))
  /\ ~Less(c.re, xmin)
  /\ ~Less(xmax, c.re)

\* line 26: the real roots of the derivative inside the padded domain, in the
\* order of the root array r
IsCritical(c, xmin, xmax) ==
  /\ Less(Abs(c.im), ImagTol)
  /\ Less(xmin, c.re)
  /\ Less(c.re, xmax)

RECURSIVE CritPoints(_, _, _)
CritPoints(r, xmin, xmax) ==
  IF Len(r) = 0 THEN << >>
  ELSE (IF IsCritical(r[1], xmin, xmax) THEN <<r[1].re>> ELSE << >>)
         \o CritPoints(Tail(r), xmin, xmax)

\* lines 38-41: the Taylor coefficients of p at dx, pt[i+1] for the source's pt[i]
Taylor(p, dx) ==
  [i \in 1..7 |-> Div(Polyval(Deriv(p, i - 1), dx), Np(Factorial(i - 1), 1))]

\* polfit(x, y, n), where r is the array that p.deriv().r returns.  raised is
\* the exception that ends the call ("none": it returns), out what it prints.
polfit(x, y, n, r) ==
  IF Len(y) = 0
    THEN [raised |-> "ValueError", p |-> << >>, xref |-> Zero, re |-> Zero,
          pt |-> << >>, out |-> << >>]
  ELSE
    LET xref == x[ArgMin(y)]
        xshift == Shift(x, xref)
        p == poly1d(polyfit(xshift, y, n))
        xmin == Sub(SeqMin(xshift), Margin)
        xmax == Add(SeqMax(xshift), Margin)
        crit_points == CritPoints(r, xmin, xmax)
    IN  IF Len(crit_points) = 0
          THEN [raised |-> "none", p |-> p, xref |-> xref, re |-> xref,
                pt |-> [i \in 1..7 |-> Py(0, 1)],
                out |-> <<"MINIMUM NOT FOUND">>]
          ELSE LET dx == crit_points[1]
               IN  [raised |-> "none", p |-> p, xref |-> xref,
                    re |-> Add(xref, dx), pt |-> Taylor(p, dx), out |-> << >>]

\* ------------------------------------------------------------------------
\* dunham (lines 47-79)
\* ------------------------------------------------------------------------

\* The defaults of the parameters n and Emax (line 47)
DefaultN == 6
DefaultEmax == Py(0, 1)

\* line 68: the anharmonic corrections are computed
Anharmonic(n) == n > 5

\* A dissociation block that runs whatever Emax is
SuppliedAlways(Emax) == TRUE

\* line 75: a highest energy was supplied
Supplied(Emax) == ~IsZero(Emax)

\* dunham(re, pt, mu, n, Emax); pt[i+1] is the source's pt[i].  raised is the
\* exception that ends the call, "none" when it returns the eight constants.
dunham(re, pt, mu, n, Emax) ==
  LET An == Mul(mu, FORCE_MASS)
      Ee == pt[1]
      Be == Div(Mul(Py(1, 2), TO_CM), Mul(An, Pow(re, 2)))
      We == Mul(TO_CM, Sqrt(Div(Mul(Py(2, 1), Abs(pt[3])), An)))
      npt == [i \in 1..4 |-> Mul(Div(pt[i + 3], pt[3]), Pow(re, i))]
      Ae == Div(Mul(Mul(Py(-6, 1), Pow(Be, 2)), Add(Py(1, 1), npt[1])), We)
      Wexe == IF Anharmonic(n)
                THEN Mul(Mul(Py(-3, 2),
                             Sub(npt[2], Mul(Py(5, 4), Pow(npt[1], 2)))), Be)
                ELSE Py(0, 1)
      Weye == IF Anharmonic(n)
                THEN Div(Mul(Mul(Py(1, 2),
                       Add(Sub(Sub(Sub(Mul(Py(10, 1), npt[4]),
                                       Mul(Mul(Py(35, 1), npt[1]), npt[3])),
                                   Mul(Py(17, 2), Pow(npt[2], 2))),
                               Mul(Mul(Py(449, 8), npt[2]), Pow(npt[1], 2))),
                           Neg(Mul(Py(705, 32), Pow(npt[1], 4))))),
                       Pow(Be, 2)), We)
                ELSE Py(0, 1)
      De == IF Supplied(Emax) THEN Mul(Sub(Emax, Ee), TO_EV) ELSE Py(0, 1)
      D0 == IF Supplied(Emax)
              THEN Sub(De, Div(Mul(Mul(Py(1, 2),
                                       Sub(We, Mul(Py(1, 2), Wexe))), TO_EV),
                               TO_CM))
              ELSE Py(0, 1)
  IN  IF Be.k = "err" \/ \E i \in 1..4 : npt[i].k = "err"
        THEN [raised |-> "ZeroDivisionError", Ee |-> Ee, Be |-> Err, Ae |-> Err,
              We |-> Err, Wexe |-> Err, Weye |-> Err, De |-> Err, D0 |-> Err]
        ELSE [raised |-> "none", Ee |-> Ee, Be |-> Be, Ae |-> Ae, We |-> We,
              Wexe |-> Wexe, Weye |-> Weye, De |-> De, D0 |-> D0]

\* ------------------------------------------------------------------------
\* State
\* ------------------------------------------------------------------------

VARIABLES
  \* read_input_file: its place (rpc), the lines read so far (file), and
  \* its locals names, ncols, x, ys
  rpc, file, rnames, ncols, rx, rys,
  \* a single call of polfit or dunham: its arguments and what it returns
  hpc, arg, ret,
  \* the script body: its place (pc), the table read (names, x, ys), the
  \* arguments (poly_order, mu, and the part of plot_ix consumed so far), the
  \* loop's lists, the number of columns the loop has taken (col) and its
  \* counter i, the globals the loop body assigns, the
  \* exception that ended the run, the lines printed, the rows of the table
  \* drawn, the plot subsets and the series handed to plot_polfit
  pc, names, x, ys, poly_order, mu, plot_ix,
  ps, xrefs, results, col, i, p, xref, re, pt,
  err, out, table, ysubset, psubset, namesubset, xshifts, plotted

readVars == <<rpc, file, rnames, ncols, rx, rys>>
callVars == <<hpc, arg, ret>>
scriptVars == <<pc, names, x, ys, poly_order, mu, plot_ix, ps, xrefs, results,
                col, i, p, xref, re, pt, err, out, table, ysubset, psubset,
                namesubset, xshifts, plotted>>
vars == <<readVars, callVars, scriptVars>>

ReadIdle == /\ rpc = "idle" /\ file = << >> /\ rnames = << >> /\ ncols = 0
            /\ rx = << >> /\ rys = << >>
CallIdle == hpc = "idle" /\ arg = << >> /\ ret = << >>
ScriptIdle ==
  /\ pc = "idle" /\ names = << >> /\ x = << >> /\ ys = << >>
  /\ poly_order = 0 /\ mu = Py(1, 1) /\ plot_ix = << >>
  /\ ps = << >> /\ xrefs = << >> /\ results = << >> /\ col = 0 /\ i = 0
  /\ p = << >> /\ xref = Zero /\ re = Zero /\ pt = << >>
  /\ err = "none" /\ out = << >> /\ table = << >>
  /\ ysubset = << >> /\ psubset = << >> /\ namesubset = << >>
  /\ xshifts = << >> /\ plotted = << >>

\* ------------------------------------------------------------------------
\* read_input_file (lines 95-117)
\* ------------------------------------------------------------------------

MaxNcols == 3
MaxLines == 3

\* The header's column names
HeaderNames == <<"R", "E1", "E2", "E3", "E4", "E5">>

\* A data line is its whitespace-separated fields.  Field j of line l holds
\* the number 10*l + j, so that every number of the file is different; at
\* most one field (bad) is text that float() rejects.
Text == [k |-> "text", n |-> 0, d |-> 1, np |-> FALSE]
Field(l, j, bad) == IF j = bad THEN Text ELSE Py(10 * l + j, 1)
Line(l, k, bad) == [j \in 1..k |-> Field(l, j, bad)]

\* line 109: float(v) for every field; ValueError on a field that is no number
FloatsOk(line) == \A j \in 1..Len(line) : line[j] # Text

\* A reader that keeps a row only when it has fields to spare
RowKeptStrict(cols, n) == Len(cols) > n

\* line 110: the row is kept
RowKept(cols, n) == Len(cols) >= n

\* lines 111-113
AppendRow(lists, cols) == [y \in 1..Len(lists) |-> Append(lists[y], cols[y + 1])]

\* lines 102-107, 115
ReadHeader ==
  /\ rpc = "header"
  /\ \E n \in 0..MaxNcols :
       /\ rnames' = SubSeq(HeaderNames, 1, n)
       /\ ncols' = n
       /\ rys' = IF n > 1 THEN [y \in 1..(n - 1) |-> << >>] ELSE << >>
       /\ rpc' = IF n > 1 THEN "lines" ELSE "returned"
  /\ UNCHANGED <<file, rx, callVars, scriptVars>>

\* lines 108-113: one pass of the loop over the lines of the file
ReadLine ==
  /\ rpc = "lines"
  /\ Len(file) < MaxLines
  /\ \E k \in 0..(ncols + 1), bad \in 0..(ncols + 1) :
       /\ bad <= k
       /\ LET cols == Line(Len(file) + 1, k, bad) IN
          /\ file' = Append(file, cols)
          /\ IF ~FloatsOk(cols)
               THEN rpc' = "raised" /\ UNCHANGED <<rx, rys>>
               ELSE IF RowKept(cols, ncols)
                 THEN /\ rx' = Append(rx, cols[1])
                      /\ rys' = AppendRow(rys, cols)
                      /\ rpc' = "lines"
                 ELSE UNCHANGED <<rpc, rx, rys>>
  /\ UNCHANGED <<rnames, ncols, callVars, scriptVars>>

\* line 117, at the end of the file
ReadReturn ==
  /\ rpc = "lines"
  /\ rpc' = "returned"
  /\ UNCHANGED <<file, rnames, ncols, rx, rys, callVars, scriptVars>>

InitRead ==
  /\ rpc = "header" /\ file = << >> /\ rnames = << >> /\ ncols = 0
  /\ rx = << >> /\ rys = << >>
  /\ CallIdle /\ ScriptIdle

NextRead == ReadHeader \/ ReadLine \/ ReadReturn

SpecRead == InitRead /\ [][NextRead]_vars

\* ------------------------------------------------------------------------
\* Input curves.  A data column holds the samples, at the positions x, of a
\* polynomial in (position - x[r]) with small integer coefficients: a fit of
\* order n >= degree returns that polynomial, written in the shifted position.
\* ------------------------------------------------------------------------

Grid == [j \in 1..5 |-> Np(j, 1)]
Scrambled == <<Np(3, 1), Np(1, 1), Np(2, 1), Np(5, 1), Np(4, 1)>>

\* t^2, (2t-1)^2, t, t^3, t^3 + 3t^2, t^3 + 3t and the flat curve 0
Curves == {<<1, 0, 0>>, <<4, -4, 1>>, <<1, 0>>, <<1, 0, 0, 0>>,
           <<1, 3, 0, 0>>, <<1, 0, 3, 0>>, <<0>>}

\* The file's numbers are Python floats
Samples(c, xs, r) ==
  [j \in 1..Len(xs) |->
     LET v == Polyval([m \in 1..Len(c) |-> Np(c[m], 1)], Sub(xs[j], xs[r]))
     IN  Py(v.n, v.d)]

\* line 16 and lines 20-21 and the derivative of line 26
FitDeriv(xs, y, n) ==
  Deriv1(poly1d(polyfit(Shift(xs, xs[ArgMin(y)]), y, n)))

\* The columns of the curves centred on the positions rs which a fit of order
\* n reproduces and whose derivative has all its roots among RootCands
DataCols(xs, n, rs) ==
  {y \in {Samples(c, xs, r) : c \in {d \in Curves : Len(d) - 1 <= n},
                              r \in rs} :
     /\ FitsExactly(Shift(xs, xs[ArgMin(y)]), y, n)
     /\ roots(FitDeriv(xs, y, n)) # {}}

\* ------------------------------------------------------------------------
\* One call of polfit, with any array returned by the numerical root-finder:
\* as many complex numbers as the derivative has roots, each an exact root or
\* a number on or near the bounds of the padded domain, with an imaginary
\* part of 0, 5e-9, -1e-8, 1e-8 or 1
\* ------------------------------------------------------------------------

MaxOrder == 3

NumRe(lo, hi) == {Sub(lo, Py(1, 10)), Sub(lo, Py(1, 20)), lo,
                  Add(hi, Py(1, 20)), Add(hi, Py(1, 10))}
NumIm == {Np(0, 1), Np(1, 200000000), Np(-1, 100000000), Np(1, 100000000),
          Np(1, 1)}
NumCands(q, lo, hi) ==
  {c \in RootCands : Multiplicity(q, c) > 0}
    \cup {Cx(a, b) : a \in NumRe(lo, hi), b \in NumIm}

InitPolfit ==
  /\ hpc = "call"
  /\ \E xs \in {Grid, Scrambled}, n \in 1..MaxOrder :
       \E y \in DataCols(xs, n, 1..Len(xs)) \cup {<< >>} :
         arg = [x |-> IF y = << >> THEN << >> ELSE xs, y |-> y, n |-> n,
                r |-> << >>]
  /\ ret = << >>
  /\ ReadIdle /\ ScriptIdle

CallPolfit ==
  /\ hpc = "call"
  /\ "y" \in DOMAIN arg
  /\ LET q == IF arg.y = << >> THEN <<Zero>> ELSE FitDeriv(arg.x, arg.y, arg.n)
         xs == IF arg.y = << >> THEN <<Zero>>
               ELSE Shift(arg.x, arg.x[ArgMin(arg.y)])
     IN  \E r \in [1..Order(q) -> NumCands(q, SeqMin(xs), SeqMax(xs))] :
           /\ arg' = [arg EXCEPT !.r = r]
           /\ ret' = polfit(arg.x, arg.y, arg.n, r)
  /\ hpc' = "returned"
  /\ UNCHANGED <<readVars, scriptVars>>

SpecPolfit == InitPolfit /\ [][CallPolfit]_vars

\* ------------------------------------------------------------------------
\* One call of dunham
\* ------------------------------------------------------------------------

MaxPt == 1

\* re, pt and Emax are Python floats or numpy.float64 values
Num(v, np) == Fin(v, 1, np)

InitDunham ==
  /\ hpc = "call"
  /\ \E r \in 0..2, rnp \in BOOLEAN, pnp \in BOOLEAN, e \in -1..0, c \in -1..1,
        h \in [4..7 -> 0..MaxPt], m \in 1..2, n \in {4, 5, 6, 7}, emax \in 0..1 :
       arg = [re |-> Num(r, rnp),
              pt |-> <<Num(e, pnp), Num(0, pnp), Num(c, pnp), Num(h[4], pnp),
                       Num(h[5], pnp), Num(h[6], pnp), Num(h[7], pnp)>>,
              mu |-> Py(m, 1), n |-> n, Emax |-> Py(emax, 1)]
  /\ ret = << >>
  /\ ReadIdle /\ ScriptIdle

CallDunham ==
  /\ hpc = "call"
  /\ "Emax" \in DOMAIN arg
  /\ ret' = dunham(arg.re, arg.pt, arg.mu, arg.n, arg.Emax)
  /\ hpc' = "returned"
  /\ UNCHANGED <<arg, readVars, scriptVars>>

SpecDunham == InitDunham /\ [][CallDunham]_vars

\* ------------------------------------------------------------------------
\* The script body (lines 120-174)
\* ------------------------------------------------------------------------

MaxCols == 2
MaxPlot == 2

\* An index counted from 1 where Python counts from 0
ItemFromOne(list, j) == list[IF j < 0 THEN j + Len(list) ELSE j]

\* list[j] in Python, j counted from 0 and negative j from the end; out of
\* range it raises IndexError
InRange(list, j) == -Len(list) <= j /\ j < Len(list)
Item(list, j) == list[(IF j < 0 THEN j + Len(list) ELSE j) + 1]

\* line 147: the row of one column
Row(name, r, d) ==
  [name |-> name, E |-> d.Ee, re |-> r, reA |-> Mul(r, TO_ANGSTROM), B |-> d.Be,
   A |-> d.Ae, W |-> d.We, Wx |-> d.Wexe, Wy |-> d.Weye, De |-> d.De,
   D0 |-> d.D0]

\* line 146: the call of dunham, which passes neither n nor Emax
Analyse(r, t, m) == dunham(r, t, m, DefaultN, DefaultEmax)

\* line 140: the first value of the counter i
FirstIndex == 1

\* lines 128-140, for a table that read_input_file returned: the header's
\* names, the positions, one list per data column.  cols data columns of one
\* of the curves above on the grid, or a header without data lines (xs empty),
\* or a header of a single name (cols = 0).  -angstrom is left at its default.
ScriptStart(xs, cols, n, m, data) ==
  /\ pc = "loop"
  /\ names = SubSeq(HeaderNames, 1, cols + 1)
  /\ x = (IF cols = 0 THEN << >> ELSE xs)
  /\ ys \in [1..cols -> IF xs = << >> THEN {<< >>} ELSE data]
  /\ poly_order = n
  /\ mu = Py(m, 1)
  /\ plot_ix = << >>
  /\ ps = << >> /\ xrefs = << >> /\ results = << >>
  /\ col = 0
  /\ i = FirstIndex
  /\ p = << >> /\ xref = Zero /\ re = Zero /\ pt = << >>
  /\ err = "none" /\ out = << >> /\ table = << >>
  /\ ysubset = << >> /\ psubset = << >> /\ namesubset = << >>
  /\ xshifts = << >> /\ plotted = << >>
  /\ ReadIdle /\ CallIdle

\* The data columns on the grid, by order of the fit: the curves centred on the
\* first and on the middle position
GridData == [n \in 1..MaxOrder |-> DataCols(Grid, n, {1, 3})]

Init ==
  \E xs \in {Grid, << >>}, cols \in 0..MaxCols, n \in 1..MaxOrder, m \in 1..2 :
    ScriptStart(xs, cols, n, m, GridData[n])

\* lines 141-148: one pass of the loop over the data columns.  An exception
\* of polfit or dunham is caught nowhere: it ends the run.
ProcessColumn ==
  /\ pc = "loop"
  /\ col < Len(ys)
  /\ col' = col + 1
  /\ \E r \in (IF ys[col + 1] = << >> THEN {<< >>}
              ELSE roots(FitDeriv(x, ys[col + 1], poly_order))) :
     \E f \in {polfit(x, ys[col + 1], poly_order, r)} :
       IF f.raised # "none"
         THEN /\ pc' = "aborted"
              /\ err' = f.raised
              /\ UNCHANGED <<ps, xrefs, results, i, p, xref, re, pt, out>>
         ELSE /\ p' = f.p /\ xref' = f.xref /\ re' = f.re /\ pt' = f.pt
              /\ out' = out \o f.out
              /\ ps' = Append(ps, f.p)
              /\ xrefs' = Append(xrefs, f.xref)
              /\ \E d \in {Analyse(f.re, f.pt, mu)} :
                   IF d.raised # "none"
                     THEN /\ pc' = "aborted"
                          /\ err' = d.raised
                          /\ UNCHANGED <<results, i>>
                     ELSE IF ~InRange(names, i)
                       THEN /\ pc' = "aborted"
                            /\ err' = "IndexError"
                            /\ UNCHANGED <<results, i>>
                       ELSE /\ results' = Append(results,
                                                 Row(Item(names, i), f.re, d))
                            /\ i' = i + 1
                            /\ UNCHANGED <<pc, err>>
  /\ UNCHANGED <<names, x, ys, poly_order, mu, plot_ix, table, ysubset, psubset,
                 namesubset, xshifts, plotted, readVars, callVars>>

\* lines 150-159, after the last column: every row goes into the table,
\* which is printed
DrawTable ==
  /\ pc = "loop"
  /\ col = Len(ys)
  /\ table' = results
  /\ out' = Append(out, "table")
  /\ pc' = "plot"
  /\ UNCHANGED <<names, x, ys, poly_order, mu, plot_ix, ps, xrefs, results, col,
                 i, p, xref, re, pt, err, ysubset, psubset, namesubset, xshifts,
                 plotted, readVars, callVars>>

\* lines 167-172: the next index ix of the -plot list
PlotSelect ==
  /\ pc = "plot"
  /\ Len(plot_ix) < MaxPlot
  /\ \E ix \in -2..(MaxCols + 1) :
       /\ plot_ix' = Append(plot_ix, ix)
       /\ IF (ix - 1) < Len(ys)
            THEN IF InRange(ys, ix - 1)
                   THEN /\ ysubset' = Append(ysubset, Item(ys, ix - 1))
                        /\ psubset' = Append(psubset, Item(ps, ix - 1))
                        /\ namesubset' = Append(namesubset, Item(names, ix))
                        /\ xshifts' = Append(xshifts, Item(xrefs, ix - 1))
                        /\ UNCHANGED <<pc, err>>
                   ELSE /\ pc' = "aborted"
                        /\ err' = "IndexError"
                        /\ UNCHANGED <<ysubset, psubset, namesubset, xshifts>>
            ELSE UNCHANGED <<pc, err, ysubset, psubset, namesubset, xshifts>>
  /\ UNCHANGED <<names, x, ys, poly_order, mu, ps, xrefs, results, col, i, p,
                 xref, re, pt, out, table, plotted, readVars, callVars>>

\* lines 81-93: plot_polfit(x, ys, ps, xshifts, names) draws, for every i,
\* the samples ys[i] over x and the curve ps[i](xp - xshifts[i]) labelled
\* names[i]
plot_polfit(xv, a, b, c, d) ==
  [j \in 1..Len(a) |->
     [x |-> xv, y |-> a[j], p |-> b[j], xshift |-> c[j], name |-> d[j]]]

\* lines 162 and 174, at the end of a -plot list that is not empty
Plot ==
  /\ pc = "plot"
  /\ Len(plot_ix) > 0
  /\ plotted' = plot_polfit(x, ysubset, psubset, xshifts, namesubset)
  /\ pc' = "done"
  /\ UNCHANGED <<names, x, ys, poly_order, mu, plot_ix, ps, xrefs, results, col,
                 i, p, xref, re, pt, err, out, table, ysubset, psubset, namesubset,
                 xshifts, readVars, callVars>>

\* line 162, without -plot: nothing is plotted
Finish ==
  /\ pc = "plot"
  /\ Len(plot_ix) = 0
  /\ pc' = "done"
  /\ UNCHANGED <<names, x, ys, poly_order, mu, plot_ix, ps, xrefs, results, col,
                 i, p, xref, re, pt, err, out, table, ysubset, psubset, namesubset,
                 xshifts, plotted, readVars, callVars>>

\* A run without -plot
Next == ProcessColumn \/ DrawTable \/ Finish

Spec == Init /\ [][Next]_vars

\* A run with -plot, on columns of the two parabolas
InitPlot ==
  \E cols \in 0..MaxCols :
    ScriptStart(Grid, cols, 2, 1,
                {y \in GridData[2] :
                   roots(FitDeriv(Grid, y, 2)) # {<< >>}})

NextPlot == ProcessColumn \/ DrawTable \/ PlotSelect \/ Plot \/ Finish

SpecPlot == InitPlot /\ [][NextPlot]_vars

\* ------------------------------------------------------------------------
\* Properties of read_input_file, checked under SpecRead
\* ------------------------------------------------------------------------

\* The lines of the file read so far that have at least ncols fields
KeptLines == SelectSeq(file, LAMBDA cols : Len(cols) >= ncols)

\* C10: for a header of ncols > 1 names followed by numeric data lines, after
\* each line read there are exactly ncols - 1 energy lists, each as long as
\* the position list; the lists hold, in file order, field 1 and fields
\* 2..ncols of exactly the lines with at least ncols fields (shorter lines
\* add nothing, fields past ncols are ignored).
C10_ListsMatchKeptLines ==
  (rpc \in {"lines", "returned"} /\ ncols > 1) =>
    /\ Len(rys) = ncols - 1
    /\ \A y \in 1..Len(rys) : Len(rys[y]) = Len(rx)
    /\ Len(rx) = Len(KeptLines)
    /\ \A j \in 1..Len(KeptLines) :
         /\ rx[j] = KeptLines[j][1]
         /\ \A y \in 1..(ncols - 1) : rys[y][j] = KeptLines[j][y + 1]

\* C10 witness: a file of three numeric lines under a header of three names,
\* one line too short, one with exactly three fields, one with a field to
\* spare, read to its end
C10_Witness ==
  /\ rpc = "returned" /\ ncols = 3 /\ Len(file) = 3 /\ Len(rx) = 2
  /\ \E l \in 1..3 : Len(file[l]) < ncols
  /\ \E l \in 1..3 : Len(file[l]) = ncols
  /\ \E l \in 1..3 : Len(file[l]) > ncols

\* ------------------------------------------------------------------------
\* Properties of polfit, checked under SpecPolfit
\* ------------------------------------------------------------------------

\* The call has returned or raised, for a curve that is not empty
PolfitDone == hpc = "returned" /\ arg.y # << >>

\* The shifted positions of the call
ArgShift == Shift(arg.x, arg.x[ArgMin(arg.y)])

\* The indices of the roots that pass the filter as the specification words
\* it: |imag| below 1e-8, real part strictly between min - 0.1 and max + 0.1
PassingRoots ==
  {j \in 1..Len(arg.r) :
     /\ Less(Abs(arg.r[j].im), Py(1, 100000000))
     /\ Less(Sub(SeqMin(ArgShift), Py(1, 10)), arg.r[j].re)
     /\ Less(arg.r[j].re, Add(SeqMax(ArgShift), Py(1, 10)))}

FirstPassing == CHOOSE j \in PassingRoots : \A k \in PassingRoots : j <= k

\* C3: when no root of the derivative passes the filter, polfit does not
\* raise, reports MINIMUM NOT FOUND and returns re = xref and seven Taylor
\* coefficients 0.0; when a root passes, it does not take that branch: it
\* reports nothing and returns the Taylor coefficients of p at xref + dx.
C3_DefaultIffNoRootPasses ==
  PolfitDone =>
    /\ ret.raised = "none"
    /\ ret.xref = arg.x[ArgMin(arg.y)]
    /\ (PassingRoots = {}) =>
         /\ ret.out = <<"MINIMUM NOT FOUND">>
         /\ NumEq(ret.re, ret.xref)
         /\ Len(ret.pt) = 7
         /\ \A k \in 1..7 : IsZero(ret.pt[k])
    /\ (PassingRoots # {}) =>
         /\ ret.out = << >>
         /\ ret.pt = Taylor(ret.p, Sub(ret.re, ret.xref))
         /\ \E k \in 1..7 : ~IsZero(ret.pt[k])

\* C3 witness: the derivative has roots, one of them real, none passes the
\* filter, and the defaults came back
C3_WitnessDefault ==
  /\ PolfitDone /\ Len(arg.r) > 0 /\ PassingRoots = {}
  /\ \E j \in 1..Len(arg.r) : IsZero(arg.r[j].im)
  /\ ret.out = <<"MINIMUM NOT FOUND">>

\* C8: re = xref + dx where dx is the real part of the first root, in the
\* order of the root array, that passes the filter; a root on a bound of the
\* padded domain or with |imag| = 1e-8 is passed over.
C8_FirstPassingRootSelected ==
  (PolfitDone /\ PassingRoots # {}) =>
    /\ ret.raised = "none"
    /\ NumEq(ret.re, Add(ret.xref, arg.r[FirstPassing].re))
    /\ NumEq(ret.pt[1], Polyval(ret.p, arg.r[FirstPassing].re))

\* C8 witness: the root array starts with a real root exactly on the lower
\* bound of the padded domain, and the root selected is the second, inside
\* the domain with an imaginary part of 5e-9
C8_Witness ==
  /\ PolfitDone /\ Len(arg.r) = 2 /\ PassingRoots = {2}
  /\ NumEq(arg.r[1].re, Sub(SeqMin(ArgShift), Py(1, 10)))
  /\ IsZero(arg.r[1].im)
  /\ NumEq(arg.r[2].im, Py(1, 200000000))
  /\ NumEq(ret.re, Add(ret.xref, arg.r[2].re))
  /\ ~NumEq(ret.re, ret.xref)

\* ------------------------------------------------------------------------
\* Properties of dunham, checked under SpecDunham
\* ------------------------------------------------------------------------

\* C5: a call with pt[2] = 0 ends in a DegenerateFit failure; it neither
\* returns a tuple of constants nor fails with another error.
C5_FlatCurveRaisesDegenerateFit ==
  (hpc = "returned" /\ IsZero(arg.pt[3])) => ret.raised = "DegenerateFit"

\* C7: a call that returns with Emax = 0, the value of a call that supplies
\* none, returns De = 0.0 and D0 = 0.0.
C7_NoEmaxNoDissociation ==
  (hpc = "returned" /\ ret.raised = "none" /\ IsZero(arg.Emax)) =>
    /\ IsZero(ret.De)
    /\ IsZero(ret.D0)

\* C7 witness: the call the script makes (n = 6, Emax = 0) on a well with a
\* minimum below zero and a positive curvature has returned
C7_Witness ==
  /\ hpc = "returned" /\ ret.raised = "none"
  /\ arg.n = DefaultN /\ arg.Emax = DefaultEmax
  /\ ~IsZero(ret.Ee) /\ IsFin(ret.We) /\ ~IsZero(ret.We)
  /\ IsZero(ret.De) /\ IsZero(ret.D0)

\* ------------------------------------------------------------------------
\* Properties of the script's loop, checked under Spec
\* ------------------------------------------------------------------------

\* The run has ended: after the table, or with an exception
Ended == pc \in {"done", "aborted"}

\* C1: the run never aborts as a whole; it ends with one entry per input
\* column, whatever fails for a column.
C1_RunNeverAborts ==
  /\ pc # "aborted"
  /\ Ended => (err = "none" /\ Len(results) = Len(ys))

\* C2: when polfit found no critical point for the column just fitted (pt is
\* seven 0.0), dunham completes on it and the column's row is appended.
C2_NoMinimumStillGivesRow ==
  (Len(ps) > 0 /\ Len(pt) = 7 /\ \A k \in 1..7 : pt[k] = Py(0, 1)) =>
    /\ err = "none"
    /\ Len(results) = Len(ps)

\* C4: with an order below 6 every row has Wexe = 0.0 and Weye = 0.0.
C4_LowOrderNoAnharmonic ==
  poly_order < 6 =>
    \A j \in 1..Len(results) : IsZero(results[j].Wx) /\ IsZero(results[j].Wy)

\* C6: at every iteration boundary, after col columns, ps, xrefs and results
\* have col entries each; entry j of each comes from data column j (the
\* reference position of ys[j], the fit of ys[j] shifted by it, the energy of
\* that fit at the row's re) and results[j] carries names[j+1]; after the
\* loop there is one row per data column.
C6_ListsFollowColumns ==
  pc \in {"loop", "plot", "done"} =>
    /\ Len(ps) = col /\ Len(xrefs) = col /\ Len(results) = col
    /\ i = col + 1
    /\ \A j \in 1..col :
         /\ xrefs[j] = x[ArgMin(ys[j])]
         /\ ps[j] = poly1d(polyfit(Shift(x, xrefs[j]), ys[j], poly_order))
         /\ results[j].name = names[j + 1]
         /\ NumEq(results[j].E,
                  Polyval(ps[j], Sub(results[j].re, xrefs[j])))
    /\ pc \in {"plot", "done"} => col = Len(ys)

\* C6 witness: two different columns went through the loop and the table
\* was drawn
C6_Witness ==
  /\ pc = "plot" /\ Len(ys) = 2 /\ ys[1] # ys[2]
  /\ Len(results) = 2 /\ ps[1] # ps[2]
  /\ results[1].name = "E1" /\ results[2].name = "E2"

\* ------------------------------------------------------------------------
\* Properties of the plot selection, checked under SpecPlot
\* ------------------------------------------------------------------------

\* C9: every series handed to plot_polfit has samples, polynomial, shift and
\* label of one and the same data column, whatever the indices of the list
\* are (0, negative, repeated, above the number of columns).
C9_SeriesOfOneColumn ==
  \A s \in 1..Len(plotted) :
    \E j \in 1..Len(ys) :
      /\ plotted[s].y = ys[j]
      /\ plotted[s].p = ps[j]
      /\ plotted[s].xshift = xrefs[j]
      /\ plotted[s].name = names[j + 1]

=============================================================================
